---------------------------- MODULE Spec2Model ----------------------------
(***************************************************************************)
(* Model of the view-model serializers of stremio-core-web                 *)
(* (src/src/model/serializers.rs, serialize_streaming_server.rs and        *)
(* serialize_ctx.rs).  Every serializer is a synchronous                   *)
(* projection of a snapshot of the domain state (the model of one UI       *)
(* surface plus ctx.profile.addons, ctx.library.items and WebEnv::now())   *)
(* to one output value.  The variables hold the snapshot, the value the    *)
(* last call returned, and the local binding `meta_catalog` of             *)
(* serialize_meta_details.                                                 *)
(*                                                                         *)
(* Conventions: Option<T> is a sequence of length 0 (None) or 1 (Some);    *)
(* Vec<T> is a sequence, so Rust index k is position k + 1 here;           *)
(* Loadable is a record with a tag; a Url, a String and an id are strings; *)
(* a DateTime is a natural number.                                         *)
(***************************************************************************)
EXTENDS Integers, Sequences, FiniteSets

VARIABLES
    profile_addons,      \* ctx.profile.addons : Vec<Descriptor>
    library_items,       \* ctx.library.items : HashMap<id, LibraryItem>
    now,                 \* the value WebEnv::now() returns
    meta_details,        \* MetaDetails {selected, meta_catalogs, streams_catalogs}
    discover,            \* CatalogWithFilters<MetaItemPreview> {selected, catalog}
    remote_addons,       \* CatalogWithFilters<DescriptorPreview> {catalog}
    catalogs_with_extra, \* CatalogsWithExtra {selected, catalogs}
    streaming_server,    \* StreamingServer {selected, settings, base_url,
                         \* playback_devices, torrent, statistics}
    notifications,       \* ctx.notifications : NotificationsBucket
                         \* {items, last_updated, created}
    meta_catalog,        \* local `meta_catalog` of serialize_meta_details:
                         \* None, or Some(position of the referenced entry)
    out                  \* the JsValue returned by the last serializer call

vars == <<profile_addons, library_items, now, meta_details, discover,
          remote_addons, catalogs_with_extra, streaming_server, notifications,
          meta_catalog, out>>

inputs == <<profile_addons, library_items, now, meta_details, discover,
            remote_addons, catalogs_with_extra, streaming_server, notifications>>

----------------------------------------------------------------------------
(* Bounds of the model.                                                    *)

MaxCatalogs == 3     \* meta_catalogs entries in the selector specification
MaxStreamCatalogs == 1 \* streams_catalogs entries
MaxSkipLen == 3      \* chars of a generated "skip" value
MaxExtra == 2        \* extras before the "skip" extra of a request
MaxItems == 2        \* meta item previews of a discover catalog
MaxAddons == 2       \* installed addons of the profile
MaxRemote == 2       \* listed addons of a remote catalog
MaxSources == 2      \* sources of one surface in the addon-name specification
MaxTime == 2         \* latest instant of the clock and of a release
MaxVideos == 2       \* videos of a meta item
MaxExtCatalogs == 2  \* meta sources in the meta-extensions specification
MaxLinks == 4        \* links of all the meta sources of a snapshot together
MaxStreamSources == 2 \* streams_catalogs entries in the streams specification
MaxStreams == 2      \* streams of one Ready stream source
MaxNotifications == 2 \* notification records under one meta item id

----------------------------------------------------------------------------
(* Option, Loadable and iterator helpers.                                  *)

None == <<>>
Some(x) == <<x>>
IsSome(o) == Len(o) = 1
IsNone(o) == Len(o) = 0
Unwrap(o) == o[1]

Loading == [tag |-> "Loading"]
Ready(v) == [tag |-> "Ready", value |-> v]
Err(e) == [tag |-> "Err", error |-> e]

is_ready(content) == content.tag = "Ready"
is_loading(content) == content.tag = "Loading"
is_err(content) == content.tag = "Err"

SeqsUpTo(S, n) == UNION {[1..k -> S] : k \in 0..n}

\* Iterator::position over a sequence of booleans: the linear scan with
\* early exit behind every iter().find(pred) of the serializers.
RECURSIVE PositionFrom(_, _)
PositionFrom(mask, i) ==
    IF i > Len(mask) THEN None
    ELSE IF mask[i] THEN Some(i)
    ELSE PositionFrom(mask, i + 1)

Position(mask) == PositionFrom(mask, 1)

\* Iterator::all over a sequence of booleans.
All(mask) == \A i \in 1..Len(mask) : mask[i]

\* Iterator::any over a sequence of booleans.
Any(mask) == \E i \in 1..Len(mask) : mask[i]

----------------------------------------------------------------------------
(* Navigation targets: produced by crate::model::deep_links, an opaque     *)
(* capability; a target is the tagged tuple of what it was generated from. *)

StreamDeepLinksFrom(stream) == <<"StreamDeepLinks", stream>>
StreamDeepLinksFrom3(stream, stream_request, meta_request) ==
    <<"StreamDeepLinks", stream, stream_request, meta_request>>
VideoDeepLinksFrom(video, request) == <<"VideoDeepLinks", video, request>>
MetaItemDeepLinksFrom(meta_item) == <<"MetaItemDeepLinks", meta_item.id>>
DiscoverDeepLinksFrom(request) == <<"DiscoverDeepLinks", request>>

\* _Stream { stream, deep_links: StreamDeepLinks::from(stream) }
TrailerStreams(streams) ==
    [i \in 1..Len(streams) |->
        [stream |-> streams[i], deep_links |-> StreamDeepLinksFrom(streams[i])]]

----------------------------------------------------------------------------
(* Lookups in the context.                                                 *)

\* ctx.profile.addons.iter().find(|addon| addon.transport_url == base)
FindAddon(addons, base) ==
    LET hit == Position([i \in 1..Len(addons) |-> addons[i].transport_url = base])
    IN  IF IsSome(hit) THEN Some(addons[Unwrap(hit)]) ELSE None

\* Mutant of addon_name: the name of the first installed addon, whichever
\* addon matched.
AddonName_FirstAddon(addons, base) ==
    LET addon == FindAddon(addons, base)
    IN  IF IsSome(addon) THEN Some(addons[1].manifest.name) ELSE None

\* ....find(...).map(|addon| &addon.manifest.name)
AddonName(addons, base) ==
    LET addon == FindAddon(addons, base)
    IN  IF IsSome(addon) THEN Some(Unwrap(addon).manifest.name) ELSE None

\* Mutant of in_library: the removed flag not consulted.
InLibrary_IgnoreRemoved(items, id) == id \in DOMAIN items

\* ctx.library.items.get(&id).map(|item| !item.removed).unwrap_or_default()
InLibrary(items, id) ==
    IF id \in DOMAIN items THEN ~items[id].removed ELSE FALSE

----------------------------------------------------------------------------
(* serialize_meta_details                                                  *)

\* Mutants of the selection: the last Ready entry instead of the first.
SelectMetaCatalog_LastReady(meta_catalogs) ==
    LET n == Len(meta_catalogs)
        ready == {i \in 1..n : is_ready(meta_catalogs[i].content)}
    IN  IF ready # {} THEN Some(CHOOSE i \in ready : \A j \in ready : j <= i)
        ELSE IF All([i \in 1..n |-> is_err(meta_catalogs[i].content)])
             THEN (IF n > 0 THEN Some(1) ELSE None)
             ELSE Position([i \in 1..n |-> is_loading(meta_catalogs[i].content)])

\* ... .last() instead of .first() in the all-Err fallback.
SelectMetaCatalog_ErrLast(meta_catalogs) ==
    LET n == Len(meta_catalogs)
        first_ready == Position([i \in 1..n |-> is_ready(meta_catalogs[i].content)])
    IN  IF IsSome(first_ready) THEN first_ready
        ELSE IF All([i \in 1..n |-> is_err(meta_catalogs[i].content)])
             THEN (IF n > 0 THEN Some(n) ELSE None)
             ELSE Position([i \in 1..n |-> is_loading(meta_catalogs[i].content)])

\* ... .any(is_err) instead of .all(is_err).
SelectMetaCatalog_AnyErr(meta_catalogs) ==
    LET n == Len(meta_catalogs)
        first_ready == Position([i \in 1..n |-> is_ready(meta_catalogs[i].content)])
    IN  IF IsSome(first_ready) THEN first_ready
        ELSE IF Any([i \in 1..n |-> is_err(meta_catalogs[i].content)])
             THEN (IF n > 0 THEN Some(1) ELSE None)
             ELSE Position([i \in 1..n |-> is_loading(meta_catalogs[i].content)])

\* ... the or_else fallback left out.
SelectMetaCatalog_NoFallback(meta_catalogs) ==
    Position([i \in 1..Len(meta_catalogs) |-> is_ready(meta_catalogs[i].content)])

\* The selection of the representative, lines 632-649.
SelectMetaCatalog(meta_catalogs) ==
    LET n == Len(meta_catalogs)
        first_ready == Position([i \in 1..n |-> is_ready(meta_catalogs[i].content)])
    IN  IF IsSome(first_ready) THEN first_ready
        ELSE IF All([i \in 1..n |-> is_err(meta_catalogs[i].content)])
             THEN (IF n > 0 THEN Some(1) ELSE None)      \* .first()
             ELSE Position([i \in 1..n |-> is_loading(meta_catalogs[i].content)])

\* Mutant of upcomming: released >= now.
Upcomming_NotStrict(meta_item, t) ==
    /\ meta_item.behavior_hints.has_scheduled_videos
    /\ IF IsSome(meta_item.released) THEN Unwrap(meta_item.released) >= t ELSE TRUE

\* upcomming, lines 669-673.
Upcomming(meta_item, t) ==
    /\ meta_item.behavior_hints.has_scheduled_videos
    /\ IF IsSome(meta_item.released) THEN Unwrap(meta_item.released) > t ELSE TRUE

\* _Video, lines 659-678.
VideoView(video, meta_item, request, t) ==
    [video |-> video,
     trailer_streams |-> TrailerStreams(video.trailer_streams),
     upcomming |-> Upcomming(meta_item, t),
     watched |-> FALSE,
     progress |-> None,
     scheduled |-> meta_item.behavior_hints.has_scheduled_videos,
     deep_links |-> VideoDeepLinksFrom(video, request)]

\* _MetaItem, lines 654-695.
MetaItemView(meta_item, request, items, t) ==
    [meta_item |-> meta_item,
     videos |-> [i \in 1..Len(meta_item.videos) |->
                    VideoView(meta_item.videos[i], meta_item, request, t)],
     trailer_streams |-> TrailerStreams(meta_item.trailer_streams),
     in_library |-> InLibrary(items, meta_item.id),
     deep_links |-> MetaItemDeepLinksFrom(meta_item)]

\* The output meta_catalog, lines 652-705.
MetaCatalogView(meta_catalogs, sel, addons, items, t) ==
    IF IsNone(sel) THEN None
    ELSE LET catalog == meta_catalogs[Unwrap(sel)]
         IN  Some([content |->
                      CASE is_ready(catalog.content) ->
                             Ready(MetaItemView(catalog.content.value,
                                                catalog.request, items, t))
                        [] is_loading(catalog.content) -> Loading
                        [] is_err(catalog.content) -> Err(catalog.content.error),
                   addon_name |-> AddonName(addons, catalog.request.base)])

\* Mutant of one projected stream: the target generated from the stream
\* alone, whether or not there is a representative.
StreamView_StreamOnly(stream, stream_request, meta_catalogs, sel) ==
    [stream |-> stream, deep_links |-> StreamDeepLinksFrom(stream)]

\* One projected stream, lines 714-726.
StreamView(stream, stream_request, meta_catalogs, sel) ==
    [stream |-> stream,
     deep_links |->
        IF IsNone(sel) THEN StreamDeepLinksFrom(stream)
        ELSE StreamDeepLinksFrom3(stream, stream_request,
                                  meta_catalogs[Unwrap(sel)].request)]

\* Mutant of streams_catalogs: the stream sources put through the selection
\* of a representative, so that at most one of them is projected.
StreamsCatalogsView_Collapsed(streams_catalogs, meta_catalogs, sel, addons) ==
    LET pick == SelectMetaCatalog(streams_catalogs)
    IN  IF IsNone(pick) THEN <<>>
        ELSE LET catalog == streams_catalogs[Unwrap(pick)]
             IN  <<[content |->
                      CASE is_ready(catalog.content) ->
                             Ready([j \in 1..Len(catalog.content.value) |->
                                      StreamView(catalog.content.value[j],
                                                 catalog.request, meta_catalogs, sel)])
                        [] is_loading(catalog.content) -> Loading
                        [] is_err(catalog.content) -> Err(catalog.content.error),
                     addon_name |-> AddonName(addons, catalog.request.base)]>>

\* The output streams_catalogs, lines 706-739.
StreamsCatalogsView(streams_catalogs, meta_catalogs, sel, addons) ==
    [k \in 1..Len(streams_catalogs) |->
        LET catalog == streams_catalogs[k]
        IN  [content |->
                CASE is_ready(catalog.content) ->
                       Ready([j \in 1..Len(catalog.content.value) |->
                                StreamView(catalog.content.value[j],
                                           catalog.request, meta_catalogs, sel)])
                  [] is_loading(catalog.content) -> Loading
                  [] is_err(catalog.content) -> Err(catalog.content.error),
             addon_name |-> AddonName(addons, catalog.request.base)]]

\* stremio_core::constants::META_RESOURCE_NAME
META_RESOURCE_NAME == "meta"

\* The links one source contributes, lines 743-751: those of a Ready source
\* whose category is the meta resource name, each paired with the request.
MetaLinksOf(catalog) ==
    IF is_ready(catalog.content)
    THEN LET links == SelectSeq(catalog.content.value.links,
                                LAMBDA link : link.category = META_RESOURCE_NAME)
         IN  [i \in 1..Len(links) |-> [request |-> catalog.request, link |-> links[i]]]
    ELSE <<>>

\* Mutant of the link pairs: only those of the representative source.
MetaLinkPairs_Representative(meta_catalogs) ==
    LET sel == SelectMetaCatalog(meta_catalogs)
    IN  IF IsNone(sel) THEN <<>> ELSE MetaLinksOf(meta_catalogs[Unwrap(sel)])

\* .iter().flat_map(...), lines 740-752.
RECURSIVE MetaLinkPairs(_)
MetaLinkPairs(meta_catalogs) ==
    IF meta_catalogs = <<>> THEN <<>>
    ELSE MetaLinksOf(Head(meta_catalogs)) \o MetaLinkPairs(Tail(meta_catalogs))

\* itertools unique_by(|(_, link)| &link.url), line 753: an element passes
\* when its key was not seen before.
RECURSIVE UniqueByUrlFrom(_, _)
UniqueByUrlFrom(pairs, seen) ==
    IF pairs = <<>> THEN <<>>
    ELSE LET pair == Head(pairs)
         IN  IF pair.link.url \in seen
             THEN UniqueByUrlFrom(Tail(pairs), seen)
             ELSE <<pair>> \o UniqueByUrlFrom(Tail(pairs), seen \cup {pair.link.url})

\* Mutant of the deduplication: dedup_by_key, which drops only a repeat
\* that directly follows the element it repeats.
RECURSIVE UniqueByUrl_Consecutive(_)
UniqueByUrl_Consecutive(pairs) ==
    IF Len(pairs) < 2 THEN pairs
    ELSE IF pairs[1].link.url = pairs[2].link.url
         THEN UniqueByUrl_Consecutive(<<pairs[1]>> \o Tail(Tail(pairs)))
         ELSE <<pairs[1]>> \o UniqueByUrl_Consecutive(Tail(pairs))

UniqueByUrl(pairs) == UniqueByUrlFrom(pairs, {})

\* .filter_map(...), lines 754-770: a pair whose request base is the
\* transport_url of no installed addon is dropped.
RECURSIVE ResolveExtensions(_, _)
ResolveExtensions(pairs, addons) ==
    IF pairs = <<>> THEN <<>>
    ELSE LET pair == Head(pairs)
             addon == FindAddon(addons, pair.request.base)
             rest == ResolveExtensions(Tail(pairs), addons)
         IN  IF IsSome(addon)
             THEN <<[url |-> pair.link.url,
                     name |-> pair.link.name,
                     addon |-> [transport_url |-> Unwrap(addon).transport_url,
                                manifest |-> [name |-> Unwrap(addon).manifest.name,
                                              logo |-> Unwrap(addon).manifest.logo]]]>>
                  \o rest
             ELSE rest

\* Mutant of meta_extensions: the pairs of addons that are not installed
\* are dropped before the deduplication.
MetaExtensions_ResolveFirst(meta_catalogs, addons) ==
    ResolveExtensions(
        UniqueByUrl(SelectSeq(MetaLinkPairs(meta_catalogs),
                              LAMBDA pair : IsSome(FindAddon(addons, pair.request.base)))),
        addons)

\* The output meta_extensions, lines 740-771.
MetaExtensions(meta_catalogs, addons) ==
    ResolveExtensions(UniqueByUrl(MetaLinkPairs(meta_catalogs)), addons)

\* The serialized _MetaDetails, lines 650-772.
MetaDetailsView(md, sel, addons, items, t) ==
    [selected |-> md.selected,
     meta_catalog |-> MetaCatalogView(md.meta_catalogs, sel, addons, items, t),
     streams_catalogs |->
        StreamsCatalogsView(md.streams_catalogs, md.meta_catalogs, sel, addons),
     meta_extensions |-> MetaExtensions(md.meta_catalogs, addons)]

\* serialize_meta_details(meta_details, ctx)
SerializeMetaDetails ==
    /\ meta_catalog' = SelectMetaCatalog(meta_details.meta_catalogs)
    /\ out' = [surface |-> "meta_details",
               value |-> MetaDetailsView(meta_details, meta_catalog',
                                         profile_addons, library_items, now)]
    /\ UNCHANGED inputs

----------------------------------------------------------------------------
(* serialize_discover                                                      *)

\* stremio_core::constants::SKIP_EXTRA_NAME
SKIP_EXTRA_NAME == "skip"

\* stremio_core::constants::CATALOG_PAGE_SIZE
CATALOG_PAGE_SIZE == 100

\* A u32 is held as two 16-bit limbs, [hi, lo] for hi * 2^16 + lo, so that
\* the whole range of the type is covered with small integers.
Limb == 2 ^ 16
U32(hi, lo) == [hi |-> hi, lo |-> lo]

\* char::to_digit(10): the value of a decimal digit, None for any other char.
ToDigit(c) ==
    CASE c = "0" -> Some(0) [] c = "1" -> Some(1) [] c = "2" -> Some(2)
      [] c = "3" -> Some(3) [] c = "4" -> Some(4) [] c = "5" -> Some(5)
      [] c = "6" -> Some(6) [] c = "7" -> Some(7) [] c = "8" -> Some(8)
      [] c = "9" -> Some(9) [] OTHER -> None

\* acc.checked_mul(10) followed by checked_add(digit): None when the result
\* does not fit in 32 bits.
CheckedMulAdd(acc, digit) ==
    LET lo == acc.lo * 10 + digit
        hi == acc.hi * 10 + lo \div Limb
    IN  IF hi >= Limb THEN None ELSE Some(U32(hi, lo % Limb))

\* The digit loop of u32::from_str: an invalid digit or an overflow is an
\* error (None after .ok()).
RECURSIVE ParseDigits(_, _)
ParseDigits(chars, acc) ==
    IF chars = <<>> THEN Some(acc)
    ELSE LET digit == ToDigit(Head(chars))
             next == IF IsSome(digit) THEN CheckedMulAdd(acc, Unwrap(digit)) ELSE None
         IN  IF IsNone(next) THEN None
             ELSE ParseDigits(Tail(chars), Unwrap(next))

\* value.parse::<u32>().ok(), line 395.  A string is the sequence of its
\* chars.  The empty string and a lone sign are errors; one leading "+" is
\* accepted; "-" is no digit of an unsigned type.
ParseU32(chars) ==
    IF chars = <<>> THEN None
    ELSE IF Len(chars) = 1 /\ Head(chars) \in {"+", "-"} THEN None
    ELSE IF Head(chars) = "+" THEN ParseDigits(Tail(chars), U32(0, 0))
    ELSE ParseDigits(chars, U32(0, 0))

\* x / d for a u32 x and 0 < d < 2^15, by long division over the limbs.
DivU32(x, d) ==
    LET qhi == x.hi \div d
        qlo == ((x.hi % d) * Limb + x.lo) \div d
    IN  U32(qhi + qlo \div Limb, qlo % Limb)

\* 1 + x in u32 arithmetic (wrapping at 2^32).
IncU32(x) ==
    LET lo == x.lo + 1
    IN  U32((x.hi + lo \div Limb) % Limb, lo % Limb)

\* The number a u32 below 2^31 stands for.
U32Value(x) == x.hi * Limb + x.lo

\* ResourcePath::get_extra_first_value(name), line 394: the value of the
\* first extra whose name is `name`.
GetExtraFirstValue(extra, name) ==
    LET hit == Position([i \in 1..Len(extra) |-> extra[i].name = name])
    IN  IF IsSome(hit) THEN Some(extra[Unwrap(hit)].value) ELSE None

\* Mutant of the page: the zero-based quotient.
PageOfSkip_ZeroBased(skip) == DivU32(skip, CATALOG_PAGE_SIZE)

\* |skip| 1 + skip / CATALOG_PAGE_SIZE as u32, line 396, in u32 arithmetic.
PageOfSkip(skip) == IncU32(DivU32(skip, CATALOG_PAGE_SIZE))

\* page, lines 387-398; .unwrap_or(1).
Page(selected) ==
    IF IsNone(selected) THEN U32(0, 1)
    ELSE LET value == GetExtraFirstValue(Unwrap(selected).request.path.extra,
                                         SKIP_EXTRA_NAME)
             skip == IF IsSome(value) THEN ParseU32(Unwrap(value)) ELSE None
         IN  IF IsSome(skip) THEN PageOfSkip(Unwrap(skip)) ELSE U32(0, 1)

\* _MetaItemPreview of serialize_discover, lines 352-369.
DiscoverPreviewView(meta_item, items) ==
    [meta_item |-> meta_item,
     trailer_streams |-> TrailerStreams(meta_item.trailer_streams),
     in_library |-> InLibrary(items, meta_item.id),
     deep_links |-> MetaItemDeepLinksFrom(meta_item)]

\* The output catalog of serialize_discover, lines 347-381.
DiscoverCatalogView(catalog_opt, addons, items) ==
    IF IsNone(catalog_opt) THEN None
    ELSE LET catalog == Unwrap(catalog_opt)
         IN  Some([content |->
                      CASE is_ready(catalog.content) ->
                             Ready([i \in 1..Len(catalog.content.value) |->
                                      DiscoverPreviewView(catalog.content.value[i],
                                                          items)])
                        [] is_loading(catalog.content) -> Loading
                        [] is_err(catalog.content) -> Err(catalog.content.error),
                   addon_name |-> AddonName(addons, catalog.request.base)])

\* The output selectable of serialize_discover, lines 290-346.
DiscoverSelectableView(selectable) ==
    [types |-> [i \in 1..Len(selectable.types) |->
                  [type |-> selectable.types[i].type,
                   selected |-> selectable.types[i].selected,
                   request |-> selectable.types[i].request,
                   deep_links |-> DiscoverDeepLinksFrom(selectable.types[i].request)]],
     catalogs |-> [i \in 1..Len(selectable.catalogs) |->
                  [catalog |-> selectable.catalogs[i].catalog,
                   addon_name |-> selectable.catalogs[i].addon_name,
                   selected |-> selectable.catalogs[i].selected,
                   request |-> selectable.catalogs[i].request,
                   deep_links |->
                      DiscoverDeepLinksFrom(selectable.catalogs[i].request)]],
     extra |-> [i \in 1..Len(selectable.extra) |->
                  [name |-> selectable.extra[i].name,
                   is_required |-> selectable.extra[i].is_required,
                   options |-> [j \in 1..Len(selectable.extra[i].options) |->
                       [value |-> selectable.extra[i].options[j].value,
                        selected |-> selectable.extra[i].options[j].selected,
                        deep_links |-> DiscoverDeepLinksFrom(
                                          selectable.extra[i].options[j].request)]]]],
     prev_page |-> IF IsSome(selectable.prev_page)
                   THEN Some([deep_links |-> DiscoverDeepLinksFrom(
                                                Unwrap(selectable.prev_page).request)])
                   ELSE None,
     next_page |-> IF IsSome(selectable.next_page)
                   THEN Some([deep_links |-> DiscoverDeepLinksFrom(
                                                Unwrap(selectable.next_page).request)])
                   ELSE None]

\* The serialized _CatalogWithFilters of serialize_discover, lines 288-399.
DiscoverView(dis, addons, items) ==
    [selected |-> dis.selected,
     selectable |-> DiscoverSelectableView(dis.selectable),
     catalog |-> DiscoverCatalogView(dis.catalog, addons, items),
     default_request |-> IF Len(dis.selectable.types) > 0
                         THEN Some(dis.selectable.types[1].request)
                         ELSE None,
     page |-> Page(dis.selected)]

\* serialize_discover(discover, ctx)
SerializeDiscover ==
    /\ out' = [surface |-> "discover",
               value |-> DiscoverView(discover, profile_addons, library_items)]
    /\ UNCHANGED <<inputs, meta_catalog>>

----------------------------------------------------------------------------
(* serialize_remote_addons                                                 *)

\* Mutant of installed: the listed entry compared as a whole, manifest included.
Installed_ByIdentity(addons, addon) ==
    Any([i \in 1..Len(addons) |->
            /\ addons[i].transport_url = addon.transport_url
            /\ addons[i].manifest.name = addon.manifest.name])

\* installed, lines 486-491: some installed addon has the transport_url of
\* the listed addon.
Installed(addons, addon) ==
    Any([i \in 1..Len(addons) |-> addons[i].transport_url = addon.transport_url])

\* The output catalog of serialize_remote_addons, lines 476-498.
RemoteCatalogView(catalog_opt, addons) ==
    IF IsNone(catalog_opt) THEN None
    ELSE LET catalog == Unwrap(catalog_opt)
         IN  Some([content |->
                      CASE is_ready(catalog.content) ->
                             Ready([i \in 1..Len(catalog.content.value) |->
                                      [addon |-> catalog.content.value[i],
                                       installed |->
                                          Installed(addons,
                                                    catalog.content.value[i])]])
                        [] is_loading(catalog.content) -> Loading
                        [] is_err(catalog.content) -> Err(catalog.content.error)])

\* AddonsDeepLinks::from(&ResourceRequest), an opaque navigation target.
AddonsDeepLinksFrom(request) == <<"AddonsDeepLinks", request>>

\* The serialized _CatalogWithFilters of serialize_remote_addons, lines 449-499.
RemoteAddonsView(remote, addons) ==
    [selected |-> remote.selected,
     selectable |->
        [catalogs |-> [i \in 1..Len(remote.selectable.catalogs) |->
                         [catalog |-> remote.selectable.catalogs[i].catalog,
                          addon_name |-> remote.selectable.catalogs[i].addon_name,
                          selected |-> remote.selectable.catalogs[i].selected,
                          request |-> remote.selectable.catalogs[i].request,
                          deep_links |-> AddonsDeepLinksFrom(
                                            remote.selectable.catalogs[i].request)]],
         types |-> [i \in 1..Len(remote.selectable.types) |->
                         [type |-> remote.selectable.types[i].type,
                          selected |-> remote.selectable.types[i].selected,
                          request |-> remote.selectable.types[i].request,
                          deep_links |-> AddonsDeepLinksFrom(
                                            remote.selectable.types[i].request)]]],
     catalog |-> RemoteCatalogView(remote.catalog, addons)]

\* serialize_remote_addons(remote_addons, ctx)
SerializeRemoteAddons ==
    /\ out' = [surface |-> "remote_addons",
               value |-> RemoteAddonsView(remote_addons, profile_addons)]
    /\ UNCHANGED <<inputs, meta_catalog>>

----------------------------------------------------------------------------
(* serialize_catalogs_with_extra                                           *)

\* _MetaItemPreview of serialize_catalogs_with_extra, lines 79-90.
CatalogPreviewView(meta_item) ==
    [meta_item |-> meta_item,
     trailer_streams |-> TrailerStreams(meta_item.trailer_streams),
     deep_links |-> MetaItemDeepLinksFrom(meta_item)]

\* The serialized _CatalogsWithExtra, lines 68-105.
CatalogsWithExtraView(cwe, addons) ==
    [selected |-> cwe.selected,
     catalogs |-> [k \in 1..Len(cwe.catalogs) |->
        LET catalog == cwe.catalogs[k]
        IN  [request |-> catalog.request,
             content |->
                CASE is_ready(catalog.content) ->
                       Ready([i \in 1..Len(catalog.content.value) |->
                                CatalogPreviewView(catalog.content.value[i])])
                  [] is_loading(catalog.content) -> Loading
                  [] is_err(catalog.content) -> Err(catalog.content.error),
             addon_name |-> AddonName(addons, catalog.request.base),
             deep_links |-> DiscoverDeepLinksFrom(catalog.request)]]]

\* serialize_catalogs_with_extra(catalogs_with_extra, ctx)
SerializeCatalogsWithExtra ==
    /\ out' = [surface |-> "catalogs_with_extra",
               value |-> CatalogsWithExtraView(catalogs_with_extra, profile_addons)]
    /\ UNCHANGED <<inputs, meta_catalog>>

----------------------------------------------------------------------------
(* serialize_streaming_server, serialize_streaming_server.rs lines 27-50.  *)

\* MetaItemDeepLinks::from(resource_path).into_web_deep_links(), line 39:
\* the navigation target generated from a resource path.
MetaItemDeepLinksFromPath(resource_path) == <<"MetaItemDeepLinks", resource_path>>

\* Mutant of the torrent projection: a torrent that is not Ready is left out.
TorrentView_ReadyOnly(torrent) ==
    IF IsSome(torrent) /\ is_ready(Unwrap(torrent)[2])
    THEN Some(<<Unwrap(torrent)[1],
                Ready(<<Unwrap(torrent)[2].value,
                        MetaItemDeepLinksFromPath(Unwrap(torrent)[2].value)>>)>>)
    ELSE None

\* The output torrent, lines 33-46; a torrent is a pair
\* <<info_hash, loadable>>.
TorrentView(torrent) ==
    IF IsNone(torrent) THEN None
    ELSE LET info_hash == Unwrap(torrent)[1]
             loadable == Unwrap(torrent)[2]
         IN  Some(<<info_hash,
                    CASE is_ready(loadable) ->
                           Ready(<<loadable.value,
                                   MetaItemDeepLinksFromPath(loadable.value)>>)
                      [] is_loading(loadable) -> Loading
                      [] is_err(loadable) -> Err(loadable.error)>>)

\* The _StreamingServer structure, lines 28-48.
StreamingServerView(server) ==
    [selected |-> server.selected,
     settings |-> server.settings,
     base_url |-> server.base_url,
     playback_devices |-> server.playback_devices,
     torrent |-> TorrentView(server.torrent),
     statistics |-> server.statistics]

SerializeStreamingServer ==
    /\ out' = [surface |-> "streaming_server",
               value |-> StreamingServerView(streaming_server)]
    /\ UNCHANGED <<inputs, meta_catalog>>

----------------------------------------------------------------------------
(* serialize_ctx, serialize_ctx.rs lines 5-7 and 37-55.  The outer map of  *)
(* notifications.items is a function on its key set; an inner              *)
(* HashMap<VideoId, NotificationItem> is the sequence of its entries       *)
(* [key, value] in the order its iterator yields them.                     *)

\* Mutant of the per-key list: only the first value of the inner map.
NotificationValues_First(inner) ==
    IF Len(inner) = 0 THEN <<>> ELSE <<inner[1].value>>

\* notifications.values().collect(), lines 46-47.
NotificationValues(inner) == [i \in 1..Len(inner) |-> inner[i].value]

\* The output notifications, lines 41-52.
NotificationsView(bucket) ==
    [items |-> [meta_id \in DOMAIN bucket.items |->
                   NotificationValues(bucket.items[meta_id])],
     last_updated |-> bucket.last_updated,
     created |-> bucket.created]

\* Ctx::from(&stremio_core Ctx), lines 38-54.
CtxView(addons, bucket) ==
    [profile |-> [addons |-> addons],
     notifications |-> NotificationsView(bucket)]

SerializeCtx ==
    /\ out' = [surface |-> "ctx", value |-> CtxView(profile_addons, notifications)]
    /\ UNCHANGED <<inputs, meta_catalog>>

----------------------------------------------------------------------------
(* Values of the domain types the snapshots are drawn from.                *)

\* ResourceRequest { base, path: ResourcePath { resource, type, id, extra } }
Request(base, resource, id, extra) ==
    [base |-> base,
     path |-> [resource |-> resource, type |-> "movie", id |-> id, extra |-> extra]]

\* Descriptor { transport_url, manifest: { name, logo } }
Descriptor(transport_url, name) ==
    [transport_url |-> transport_url, manifest |-> [name |-> name, logo |-> None]]

\* MetaItem { id, name, released, behavior_hints, links, videos, trailer_streams }
MetaItem(id, name, released, has_scheduled_videos, links, videos) ==
    [id |-> id, name |-> name, released |-> released,
     behavior_hints |-> [has_scheduled_videos |-> has_scheduled_videos],
     links |-> links, videos |-> videos, trailer_streams |-> <<>>]

\* Link { name, category, url }
Link(name, category, url) == [name |-> name, category |-> category, url |-> url]

\* Video { id, trailer_streams }
Video(id) == [id |-> id, trailer_streams |-> <<>>]

\* Stream { url }
Stream(url) == [url |-> url]

\* ResourceLoadable { request, content }
ResourceLoadable(request, content) == [request |-> request, content |-> content]

EmptyLibrary == [id \in {} |-> [removed |-> FALSE]]

NoSelectable ==
    [types |-> <<>>, catalogs |-> <<>>, extra |-> <<>>,
     prev_page |-> None, next_page |-> None]

EmptyMetaDetails ==
    [selected |-> None, meta_catalogs |-> <<>>, streams_catalogs |-> <<>>]
EmptyDiscover == [selected |-> None, selectable |-> NoSelectable, catalog |-> None]
EmptyRemoteAddons == [selected |-> None, selectable |-> NoSelectable, catalog |-> None]
EmptyCatalogsWithExtra == [selected |-> None, catalogs |-> <<>>]

EmptyStreamingServer ==
    [selected |-> [transport_url |-> "server"], settings |-> Loading,
     base_url |-> Loading, playback_devices |-> Loading, torrent |-> None,
     statistics |-> None]
EmptyNotifications == [items |-> <<>>, last_updated |-> None, created |-> 0]

NoOutput == [surface |-> "none"]

\* The state before any serializer has been called, on the snapshot given.
Snapshot(addons, items, t, md, dis, remote, cwe) ==
    /\ profile_addons = addons
    /\ library_items = items
    /\ now = t
    /\ meta_details = md
    /\ discover = dis
    /\ remote_addons = remote
    /\ catalogs_with_extra = cwe
    /\ streaming_server = EmptyStreamingServer
    /\ notifications = EmptyNotifications
    /\ meta_catalog = None
    /\ out = NoOutput

----------------------------------------------------------------------------
(* SpecSelect: serialize_meta_details over every list of meta sources of   *)
(* at most MaxCatalogs entries, each from one of two addons and Loading,   *)
(* Err (two payloads) or Ready.                                            *)

SelectContents ==
    {Loading, Err("e1"), Err("e2"),
     Ready(MetaItem("tt1", "Title", None, FALSE, <<>>, <<Video("tt1:1:1")>>))}

SelectEntries ==
    {ResourceLoadable(Request(base, "meta", "tt1", <<>>), content) :
        base \in {"addon1", "addon2"}, content \in SelectContents}

SelectStreamEntries ==
    {ResourceLoadable(Request("addon1", "stream", "tt1:1:1", <<>>), content) :
        content \in {Loading, Err("e1"), Ready(<<Stream("s1")>>)}}

InitSelect ==
    \E metas \in SeqsUpTo(SelectEntries, MaxCatalogs),
       streams \in SeqsUpTo(SelectStreamEntries, MaxStreamCatalogs) :
        Snapshot(<<Descriptor("addon1", "Addon One")>>, EmptyLibrary, 0,
                 [selected |-> None, meta_catalogs |-> metas,
                  streams_catalogs |-> streams],
                 EmptyDiscover, EmptyRemoteAddons, EmptyCatalogsWithExtra)

NextSelect == SerializeMetaDetails

SpecSelect == InitSelect /\ [][NextSelect]_vars

\* serialize_meta_details has returned for the current snapshot.
MetaDone == out.surface = "meta_details"

MetaContent(i) == meta_details.meta_catalogs[i].content
NumMeta == Len(meta_details.meta_catalogs)

\* C1: when at least one meta source is Ready, the representative is the
\* Ready entry of smallest index, whatever the entries before or after it,
\* and the output meta_catalog is Ready with that entry's meta item.
C1_FirstReady ==
    (MetaDone /\ \E i \in 1..NumMeta : is_ready(MetaContent(i)))
    => \E i \in 1..NumMeta :
          /\ is_ready(MetaContent(i))
          /\ \A j \in 1..(i - 1) : ~is_ready(MetaContent(j))
          /\ meta_catalog = Some(i)
          /\ IsSome(out.value.meta_catalog)
          /\ is_ready(Unwrap(out.value.meta_catalog).content)
          /\ Unwrap(out.value.meta_catalog).content.value.meta_item
                = MetaContent(i).value

\* C1 witness: a non-Ready entry, then the selected Ready entry, then
\* another Ready entry.
C1_Witness ==
    /\ MetaDone
    /\ NumMeta >= 3
    /\ is_err(MetaContent(1))
    /\ is_ready(MetaContent(2))
    /\ is_ready(MetaContent(3))
    /\ meta_catalog = Some(2)

\* C2: when the list is non-empty and every entry is Err, the representative
\* is the first entry and the output content is Err with its payload.
C2_AllErrFirst ==
    (MetaDone /\ NumMeta > 0 /\ \A i \in 1..NumMeta : is_err(MetaContent(i)))
    => /\ meta_catalog = Some(1)
       /\ IsSome(out.value.meta_catalog)
       /\ Unwrap(out.value.meta_catalog).content = Err(MetaContent(1).error)

\* C2 witness: two Err entries with different payloads.
C2_Witness ==
    /\ MetaDone
    /\ NumMeta >= 2
    /\ \A i \in 1..NumMeta : is_err(MetaContent(i))
    /\ MetaContent(1).error # MetaContent(2).error
    /\ Unwrap(out.value.meta_catalog).content = Err(MetaContent(1).error)

\* C3: when the list is non-empty, has no Ready entry and is not all Err,
\* the representative is the Loading entry of smallest index, also when Err
\* entries precede it.
C3_FirstLoading ==
    (/\ MetaDone
     /\ NumMeta > 0
     /\ \A i \in 1..NumMeta : ~is_ready(MetaContent(i))
     /\ \E i \in 1..NumMeta : ~is_err(MetaContent(i)))
    => \E i \in 1..NumMeta :
          /\ is_loading(MetaContent(i))
          /\ \A j \in 1..(i - 1) : ~is_loading(MetaContent(j))
          /\ meta_catalog = Some(i)
          /\ Unwrap(out.value.meta_catalog).content = Loading

\* C3 witness: an Err entry before the selected Loading entry.
C3_Witness ==
    /\ MetaDone
    /\ NumMeta >= 2
    /\ is_err(MetaContent(1))
    /\ is_loading(MetaContent(2))
    /\ \A i \in 1..NumMeta : ~is_ready(MetaContent(i))
    /\ meta_catalog = Some(2)

\* C4: the output meta_catalog is absent exactly when the list is empty;
\* a non-empty list yields one representative that is an entry of the list.
C4_AbsentIffEmpty ==
    MetaDone
    => /\ IsNone(out.value.meta_catalog) <=> NumMeta = 0
       /\ IsNone(meta_catalog) <=> NumMeta = 0
       /\ NumMeta > 0 =>
             /\ IsSome(meta_catalog)
             /\ Unwrap(meta_catalog) \in 1..NumMeta
             /\ Unwrap(out.value.meta_catalog).content.tag
                   = MetaContent(Unwrap(meta_catalog)).tag

\* C4 witness: the empty list, projected to an absent meta_catalog.
C4_Witness ==
    /\ MetaDone
    /\ NumMeta = 0
    /\ out.value.meta_catalog = None

----------------------------------------------------------------------------
(* SpecPage: serialize_discover over selections whose request carries up   *)
(* to MaxExtra other extras before a "skip" extra and possibly a second    *)
(* "skip" extra after it; the skip value is any string of at most          *)
(* MaxSkipLen of the digits 0, 1, 9, or one of the strings of SkipOddities.*)

\* The largest u32, 4294967295, and its successor, as strings.
MaxU32Chars == <<"4", "2", "9", "4", "9", "6", "7", "2", "9", "5">>
OverU32Chars == <<"4", "2", "9", "4", "9", "6", "7", "2", "9", "6">>

SkipOddities ==
    {<<"-", "1">>, <<"-", "0">>, <<"+">>, <<"-">>, <<"+", "1", "0", "0">>,
     <<"+", "-", "1">>, <<"a">>, <<"1", "a">>, <<" ", "1">>, <<"1", ".", "5">>,
     MaxU32Chars, OverU32Chars}

SkipValues == SeqsUpTo({"0", "1", "9"}, MaxSkipLen) \cup SkipOddities

ExtraValue(name, value) == [name |-> name, value |-> value]

Genres(n) == [i \in 1..n |-> ExtraValue("genre", <<"1", "9", "9", "9">>)]

PageExtras ==
    {Genres(n) \o first \o second :
        n \in 0..MaxExtra,
        first \in {<<>>} \cup {<<ExtraValue(SKIP_EXTRA_NAME, v)>> : v \in SkipValues},
        second \in {<<>>, <<ExtraValue(SKIP_EXTRA_NAME, <<"1", "0", "0">>)>>}}

PageSelections ==
    {None} \cup {Some([request |-> Request("addon1", "catalog", "top", extra)]) :
                    extra \in PageExtras}

InitPage ==
    \E selected \in PageSelections :
        Snapshot(<<Descriptor("addon1", "Addon One")>>, EmptyLibrary, 0,
                 EmptyMetaDetails,
                 [selected |-> selected, selectable |-> NoSelectable,
                  catalog |-> None],
                 EmptyRemoteAddons, EmptyCatalogsWithExtra)

NextPage == SerializeDiscover

SpecPage == InitPage /\ [][NextPage]_vars

\* serialize_discover has returned for the current snapshot.
DiscoverDone == out.surface = "discover"

DigitChars == {"0", "1", "2", "3", "4", "5", "6", "7", "8", "9"}

\* The string without one leading "+".
Unsigned(chars) ==
    IF Len(chars) > 0 /\ chars[1] = "+" THEN Tail(chars) ELSE chars

IsDecimal(chars) == Len(chars) > 0 /\ \A i \in 1..Len(chars) : chars[i] \in DigitChars

\* The number a string of decimal digits denotes.
RECURSIVE DecimalValueFrom(_, _)
DecimalValueFrom(chars, i) ==
    IF i > Len(chars) THEN 0
    ELSE Unwrap(ToDigit(chars[i])) * 10 ^ (Len(chars) - i)
            + DecimalValueFrom(chars, i + 1)

DecimalValue(chars) == DecimalValueFrom(chars, 1)

\* The page the claim gives for a skip value of the specification.
PageForSkip(chars, page) ==
    LET digits == Unsigned(chars)
    IN  CASE ~IsDecimal(digits) -> page = 1
          [] IsDecimal(digits) /\ Len(digits) <= 9 ->
                page = 1 + DecimalValue(digits) \div CATALOG_PAGE_SIZE
          [] digits = MaxU32Chars -> page = 42949673  \* 1 + 4294967295 div 100
          [] digits = OverU32Chars -> page = 1
          [] OTHER -> FALSE

\* C6: page is 1 + floor(skip / CATALOG_PAGE_SIZE) when a selection is
\* present and the value of its first "skip" extra parses as a u32, and 1
\* when there is no selection, no "skip" extra or the value does not parse;
\* page(0) = 1, page(100) = 2, page(199) = 2; page >= 1 and the u32
\* arithmetic does not wrap.
C6_Page ==
    DiscoverDone
    => LET page == U32Value(out.value.page)
           extra == Unwrap(discover.selected).request.path.extra
           skips == {i \in 1..Len(extra) : extra[i].name = "skip"}
       IN  /\ out.value.page.hi < Limb \div 2
           /\ page >= 1
           /\ IsNone(discover.selected) => page = 1
           /\ (IsSome(discover.selected) /\ skips = {}) => page = 1
           /\ (IsSome(discover.selected) /\ skips # {}) =>
                 LET first == CHOOSE i \in skips : \A j \in skips : i <= j
                     value == extra[first].value
                 IN  /\ PageForSkip(value, page)
                     /\ value = <<"0">> => page = 1
                     /\ value = <<"1", "0", "0">> => page = 2
                     /\ value = <<"1", "9", "9">> => page = 2

\* C6 witness: skip = 2 * CATALOG_PAGE_SIZE - 1 after another extra and
\* before a second skip extra, projected to page 2.
C6_Witness ==
    /\ DiscoverDone
    /\ IsSome(discover.selected)
    /\ LET extra == Unwrap(discover.selected).request.path.extra
       IN  /\ Len(extra) = 3
           /\ extra[1].name = "genre"
           /\ extra[2] = ExtraValue("skip", <<"1", "9", "9">>)
           /\ extra[3].name = "skip"
    /\ out.value.page = U32(0, 2)

----------------------------------------------------------------------------
(* SpecLibrary: serialize_discover and serialize_meta_details over every   *)
(* library index on the ids tt1, tt2 (present, removed or absent) and      *)
(* either a discover catalog of at most MaxItems previews or at most       *)
(* MaxCatalogs meta sources, with ids among tt1, tt2, tt3.                 *)

ItemIds == {"tt1", "tt2", "tt3"}

\* LibraryItem { removed }
Libraries ==
    UNION {[ids -> {[removed |-> FALSE], [removed |-> TRUE]}] :
              ids \in SUBSET {"tt1", "tt2"}}

\* MetaItemPreview { id, name, trailer_streams }
MetaItemPreview(id) == [id |-> id, name |-> "Title", trailer_streams |-> <<>>]

LibraryDiscoverCatalogs ==
    {None}
    \cup {Some(ResourceLoadable(Request("addon1", "catalog", "top", <<>>), content)) :
            content \in {Loading, Err("e1")}
                        \cup {Ready(previews) :
                                previews \in SeqsUpTo({MetaItemPreview(id) : id \in ItemIds},
                                                      MaxItems)}}

LibraryMetaEntries ==
    {ResourceLoadable(Request("addon1", "meta", "tt1", <<>>), content) :
        content \in {Loading, Err("e1")}
                    \cup {Ready(MetaItem(id, "Title", None, FALSE, <<>>, <<>>)) :
                            id \in ItemIds}}

InitLibrary ==
    \E items \in Libraries :
        \/ \E catalog \in LibraryDiscoverCatalogs :
              Snapshot(<<Descriptor("addon1", "Addon One")>>, items, 0,
                       EmptyMetaDetails,
                       [selected |-> None, selectable |-> NoSelectable,
                        catalog |-> catalog],
                       EmptyRemoteAddons, EmptyCatalogsWithExtra)
        \/ \E metas \in SeqsUpTo(LibraryMetaEntries, MaxCatalogs) :
              Snapshot(<<Descriptor("addon1", "Addon One")>>, items, 0,
                       [selected |-> None, meta_catalogs |-> metas,
                        streams_catalogs |-> <<>>],
                       EmptyDiscover, EmptyRemoteAddons, EmptyCatalogsWithExtra)

NextLibrary == SerializeDiscover \/ SerializeMetaDetails

SpecLibrary == InitLibrary /\ [][NextLibrary]_vars

\* The library index holds an entry under `id` that is not removed.
LibraryMember(id) ==
    \E key \in DOMAIN library_items :
        key = id /\ library_items[key].removed = FALSE

\* C5: every projected in_library (each preview of a Ready discover catalog,
\* the meta item of a Ready representative) is true exactly when the library
\* index holds the id with removed = false.
C5_InLibrary ==
    /\ (DiscoverDone /\ IsSome(discover.catalog)
          /\ is_ready(Unwrap(discover.catalog).content))
       => LET previews == Unwrap(discover.catalog).content.value
              views == Unwrap(out.value.catalog).content.value
          IN  /\ Len(views) = Len(previews)
              /\ \A i \in 1..Len(previews) :
                    views[i].in_library <=> LibraryMember(previews[i].id)
    /\ (MetaDone /\ IsSome(meta_catalog)
          /\ is_ready(MetaContent(Unwrap(meta_catalog))))
       => Unwrap(out.value.meta_catalog).content.value.in_library
             <=> LibraryMember(MetaContent(Unwrap(meta_catalog)).value.id)

\* C5 witness: a Ready discover catalog whose first preview is in the
\* library as removed and whose second preview is in it and not removed.
C5_Witness ==
    /\ DiscoverDone
    /\ IsSome(discover.catalog)
    /\ is_ready(Unwrap(discover.catalog).content)
    /\ LET previews == Unwrap(discover.catalog).content.value
           views == Unwrap(out.value.catalog).content.value
       IN  /\ Len(previews) = 2
           /\ previews[1].id \in DOMAIN library_items
           /\ library_items[previews[1].id].removed
           /\ ~views[1].in_library
           /\ previews[2].id \in DOMAIN library_items
           /\ ~library_items[previews[2].id].removed
           /\ views[2].in_library

----------------------------------------------------------------------------
(* SpecRemote: serialize_remote_addons over every installed list of at     *)
(* most MaxAddons addons and every remote catalog, Ready with at most      *)
(* MaxRemote listed addons, Loading, Err or absent.                        *)

InstalledAddons ==
    {Descriptor(url, name) : url \in {"addon1", "addon2"}, name \in {"One", "Two"}}

ListedAddons ==
    {Descriptor(url, name) :
        url \in {"addon1", "addon2", "addon3"}, name \in {"One", "Two"}}

RemoteCatalogs ==
    {None}
    \cup {Some(ResourceLoadable(Request("api", "addon_catalog", "all", <<>>), content)) :
            content \in {Loading, Err("e1")}
                        \cup {Ready(listed) : listed \in SeqsUpTo(ListedAddons, MaxRemote)}}

InitRemote ==
    \E addons \in SeqsUpTo(InstalledAddons, MaxAddons), catalog \in RemoteCatalogs :
        Snapshot(addons, EmptyLibrary, 0, EmptyMetaDetails, EmptyDiscover,
                 [selected |-> None, selectable |-> NoSelectable, catalog |-> catalog],
                 EmptyCatalogsWithExtra)

NextRemote == SerializeRemoteAddons

SpecRemote == InitRemote /\ [][NextRemote]_vars

RemoteDone == out.surface = "remote_addons"

\* C8: every entry of a Ready remote catalog is installed exactly when some
\* installed addon has its transport_url; two entries with the same
\* transport_url get the same flag.
C8_Installed ==
    (RemoteDone /\ IsSome(remote_addons.catalog)
       /\ is_ready(Unwrap(remote_addons.catalog).content))
    => LET listed == Unwrap(remote_addons.catalog).content.value
           views == Unwrap(out.value.catalog).content.value
       IN  /\ Len(views) = Len(listed)
           /\ \A i \in 1..Len(listed) :
                 views[i].installed
                    <=> \E k \in 1..Len(profile_addons) :
                           profile_addons[k].transport_url = listed[i].transport_url
           /\ \A i, j \in 1..Len(listed) :
                 listed[i].transport_url = listed[j].transport_url
                    => views[i].installed = views[j].installed

\* C8 witness: two different listings of one transport_url, installed under
\* a manifest that equals only the first of them, both marked installed.
C8_Witness ==
    /\ RemoteDone
    /\ IsSome(remote_addons.catalog)
    /\ is_ready(Unwrap(remote_addons.catalog).content)
    /\ LET listed == Unwrap(remote_addons.catalog).content.value
           views == Unwrap(out.value.catalog).content.value
       IN  /\ Len(listed) = 2
           /\ listed[1] # listed[2]
           /\ listed[1].transport_url = listed[2].transport_url
           /\ profile_addons = <<listed[1]>>
           /\ views[1].installed
           /\ views[2].installed

----------------------------------------------------------------------------
(* SpecAddonName: the serializers that project addon_name, over every      *)
(* installed list of at most MaxAddons addons and, for one surface at a    *)
(* time, at most MaxSources sources from addon1, addon2 or addon3.         *)

NamedBases == {"addon1", "addon2", "addon3"}

NamedCatalogs ==
    {ResourceLoadable(Request(base, "catalog", "top", <<>>), content) :
        base \in NamedBases, content \in {Loading, Ready(<<MetaItemPreview("tt1")>>)}}

NamedMetas ==
    {ResourceLoadable(Request(base, "meta", "tt1", <<>>), content) :
        base \in NamedBases,
        content \in {Err("e1"), Ready(MetaItem("tt1", "Title", None, FALSE, <<>>, <<>>))}}

NamedStreams ==
    {ResourceLoadable(Request(base, "stream", "tt1", <<>>), content) :
        base \in NamedBases, content \in {Loading, Ready(<<Stream("s1")>>)}}

InitAddonName ==
    \E addons \in SeqsUpTo(InstalledAddons, MaxAddons) :
        \/ \E catalogs \in SeqsUpTo(NamedCatalogs, MaxSources) :
              Snapshot(addons, EmptyLibrary, 0, EmptyMetaDetails, EmptyDiscover,
                       EmptyRemoteAddons, [selected |-> None, catalogs |-> catalogs])
        \/ \E catalog \in NamedCatalogs :
              Snapshot(addons, EmptyLibrary, 0, EmptyMetaDetails,
                       [selected |-> None, selectable |-> NoSelectable,
                        catalog |-> Some(catalog)],
                       EmptyRemoteAddons, EmptyCatalogsWithExtra)
        \/ \E metas \in SeqsUpTo(NamedMetas, MaxSources) :
              Snapshot(addons, EmptyLibrary, 0,
                       [selected |-> None, meta_catalogs |-> metas,
                        streams_catalogs |-> <<>>],
                       EmptyDiscover, EmptyRemoteAddons, EmptyCatalogsWithExtra)
        \/ \E streams \in SeqsUpTo(NamedStreams, MaxSources) :
              Snapshot(addons, EmptyLibrary, 0,
                       [selected |-> None, meta_catalogs |-> <<>>,
                        streams_catalogs |-> streams],
                       EmptyDiscover, EmptyRemoteAddons, EmptyCatalogsWithExtra)

NextAddonName ==
    SerializeCatalogsWithExtra \/ SerializeDiscover \/ SerializeMetaDetails

SpecAddonName == InitAddonName /\ [][NextAddonName]_vars

CatalogsDone == out.surface = "catalogs_with_extra"

\* `name` is what the claim gives for a source requested from `base`: the
\* manifest name of the first installed addon with that transport_url, and
\* absent when there is none.
NamesAddonOf(name, base) ==
    LET matches == {k \in 1..Len(profile_addons) :
                       profile_addons[k].transport_url = base}
    IN  IF matches = {} THEN name = None
        ELSE \E k \in matches :
                /\ \A j \in matches : k <= j
                /\ name = Some(profile_addons[k].manifest.name)

\* C9: every projected addon_name (catalogs-with-extra catalogs, the
\* discover catalog, the meta representative, every streams catalog) is the
\* manifest name of the first installed addon whose transport_url is the
\* source request's base, and absent when no installed addon has it.
C9_AddonName ==
    /\ CatalogsDone =>
          /\ Len(out.value.catalogs) = Len(catalogs_with_extra.catalogs)
          /\ \A i \in 1..Len(catalogs_with_extra.catalogs) :
                NamesAddonOf(out.value.catalogs[i].addon_name,
                             catalogs_with_extra.catalogs[i].request.base)
    /\ (DiscoverDone /\ IsSome(discover.catalog)) =>
          NamesAddonOf(Unwrap(out.value.catalog).addon_name,
                       Unwrap(discover.catalog).request.base)
    /\ MetaDone =>
          /\ IsSome(meta_catalog) =>
                NamesAddonOf(Unwrap(out.value.meta_catalog).addon_name,
                   meta_details.meta_catalogs[Unwrap(meta_catalog)].request.base)
          /\ Len(out.value.streams_catalogs) = Len(meta_details.streams_catalogs)
          /\ \A i \in 1..Len(meta_details.streams_catalogs) :
                NamesAddonOf(out.value.streams_catalogs[i].addon_name,
                             meta_details.streams_catalogs[i].request.base)

\* C9 witness: a first catalog named after the second installed addon and a
\* second catalog, of an addon that is not installed, without a name.
C9_Witness ==
    /\ CatalogsDone
    /\ Len(catalogs_with_extra.catalogs) = 2
    /\ Len(profile_addons) = 2
    /\ profile_addons[1].transport_url # profile_addons[2].transport_url
    /\ profile_addons[1].manifest.name # profile_addons[2].manifest.name
    /\ catalogs_with_extra.catalogs[1].request.base = profile_addons[2].transport_url
    /\ out.value.catalogs[1].addon_name = Some(profile_addons[2].manifest.name)
    /\ catalogs_with_extra.catalogs[2].request.base = "addon3"
    /\ out.value.catalogs[2].addon_name = None

----------------------------------------------------------------------------
(* SpecUpcoming: serialize_meta_details over a Ready meta source, alone or *)
(* after a Loading or Err source, with at most MaxVideos videos, every     *)
(* release instant up to MaxTime or none, and every clock value up to      *)
(* MaxTime.                                                                *)

UpcomingItems ==
    {MetaItem("tt1", "Title", released, scheduled, <<>>,
              [i \in 1..n |-> Video("tt1:1:1")]) :
        released \in {None} \cup {Some(t) : t \in 0..MaxTime},
        scheduled \in BOOLEAN,
        n \in 0..MaxVideos}

UpcomingPrefixes ==
    {<<>>,
     <<ResourceLoadable(Request("addon2", "meta", "tt1", <<>>), Loading)>>,
     <<ResourceLoadable(Request("addon2", "meta", "tt1", <<>>), Err("e1"))>>}

InitUpcoming ==
    \E t \in 0..MaxTime, item \in UpcomingItems, prefix \in UpcomingPrefixes :
        Snapshot(<<Descriptor("addon1", "Addon One")>>, EmptyLibrary, t,
                 [selected |-> None,
                  meta_catalogs |->
                     prefix \o <<ResourceLoadable(Request("addon1", "meta", "tt1", <<>>),
                                                  Ready(item))>>,
                  streams_catalogs |-> <<>>],
                 EmptyDiscover, EmptyRemoteAddons, EmptyCatalogsWithExtra)

NextUpcoming == SerializeMetaDetails

SpecUpcoming == InitUpcoming /\ [][NextUpcoming]_vars

\* C10: every video of a Ready representative has upcomming true exactly
\* when has_scheduled_videos is true and released is absent or strictly
\* after the current time.
C10_Upcoming ==
    (MetaDone /\ IsSome(meta_catalog) /\ is_ready(MetaContent(Unwrap(meta_catalog))))
    => LET item == MetaContent(Unwrap(meta_catalog)).value
           views == Unwrap(out.value.meta_catalog).content.value.videos
       IN  /\ Len(views) = Len(item.videos)
           /\ \A i \in 1..Len(views) :
                 views[i].upcomming
                    <=> /\ item.behavior_hints.has_scheduled_videos = TRUE
                        /\ \/ item.released = None
                           \/ \E t \in 0..MaxTime :
                                 item.released = Some(t) /\ t > now

\* C10 witness: scheduled videos released at exactly the current time, so
\* not upcomming.
C10_Witness ==
    /\ MetaDone
    /\ IsSome(meta_catalog)
    /\ is_ready(MetaContent(Unwrap(meta_catalog)))
    /\ LET item == MetaContent(Unwrap(meta_catalog)).value
           views == Unwrap(out.value.meta_catalog).content.value.videos
       IN  /\ Len(views) >= 1
           /\ item.behavior_hints.has_scheduled_videos
           /\ item.released = Some(now)
           /\ ~views[1].upcomming

----------------------------------------------------------------------------
(* SpecExtensions: serialize_meta_details over at most MaxExtCatalogs meta *)
(* sources from addon1 (installed) or addon2 (not installed), each         *)
(* Loading, Err or Ready with links drawn from ExtLinks, at most MaxLinks  *)
(* links in all.                                                           *)

ExtLinks ==
    {Link("Ext A", META_RESOURCE_NAME, "A"), Link("Ext B", META_RESOURCE_NAME, "B"),
     Link("Ext C", META_RESOURCE_NAME, "C"), Link("Cast", "actor", "A")}

\* The state of one source: -1 for Loading, -2 for Err, k >= 0 for Ready
\* with k links.
ExtSourceStates == {-1, -2} \cup 0..MaxLinks

LinkCount(state) == IF state < 0 THEN 0 ELSE state

RECURSIVE LinkTotal(_, _)
LinkTotal(states, n) ==
    IF n = 0 THEN 0 ELSE LinkCount(states[n]) + LinkTotal(states, n - 1)

\* The list of sources with the given states and bases, whose links are the
\* consecutive slices of `flat`.
ExtSources(states, bases, flat) ==
    [i \in 1..Len(states) |->
        ResourceLoadable(
            Request(bases[i], "meta", "tt1", <<>>),
            CASE states[i] = -1 -> Loading
              [] states[i] = -2 -> Err("e1")
              [] OTHER ->
                   Ready(MetaItem("tt1", "Title", None, FALSE,
                                  SubSeq(flat, LinkTotal(states, i - 1) + 1,
                                         LinkTotal(states, i)),
                                  <<>>)))]

InitExtensions ==
    \E n \in 0..MaxExtCatalogs :
        \E states \in [1..n -> ExtSourceStates], bases \in [1..n -> {"addon1", "addon2"}] :
            /\ LinkTotal(states, n) <= MaxLinks
            /\ \E flat \in [1..LinkTotal(states, n) -> ExtLinks] :
                  Snapshot(<<Descriptor("addon1", "Addon One")>>, EmptyLibrary, 0,
                           [selected |-> None,
                            meta_catalogs |-> ExtSources(states, bases, flat),
                            streams_catalogs |-> <<>>],
                           EmptyDiscover, EmptyRemoteAddons, EmptyCatalogsWithExtra)

NextExtensions == SerializeMetaDetails

SpecExtensions == InitExtensions /\ [][NextExtensions]_vars

\* The places <<i, j>> of the traversal: link j of the Ready source i, of
\* the meta category.
MetaLinkPlaces ==
    UNION {{<<i, j>> : j \in {k \in 1..Len(MetaContent(i).value.links) :
                                MetaContent(i).value.links[k].category = "meta"}} :
              i \in {k \in 1..NumMeta : is_ready(MetaContent(k))}}

LinkAt(place) == MetaContent(place[1]).value.links[place[2]]

\* Place p is visited before place q.
Before(p, q) == p[1] < q[1] \/ (p[1] = q[1] /\ p[2] < q[2])

\* The first place of the traversal that carries `url`.
FirstPlace(url) ==
    CHOOSE p \in MetaLinkPlaces :
        /\ LinkAt(p).url = url
        /\ \A q \in MetaLinkPlaces : LinkAt(q).url = url => (q = p \/ Before(p, q))

\* C7: meta_extensions holds no two entries with the same url; every entry's
\* url occurs in the traversal of the meta-category links of the Ready
\* sources (sources in list order, links in declared order) and the entries
\* are in the order of the first occurrences of their urls; when every
\* traversed link comes from an installed addon every traversed url is
\* there, so links [A, B, A, C] give [A, B, C].
C7_UniqueInOrder ==
    MetaDone
    => LET ext == out.value.meta_extensions
           urls == [p \in 1..Len(ext) |-> ext[p].url]
           installed(base) == \E k \in 1..Len(profile_addons) :
                                 profile_addons[k].transport_url = base
           traversed == MetaLinkPairs(meta_details.meta_catalogs)
       IN  /\ \A p, q \in 1..Len(ext) : p # q => urls[p] # urls[q]
           /\ \A p \in 1..Len(ext) :
                 \E place \in MetaLinkPlaces : LinkAt(place).url = urls[p]
           /\ \A p, q \in 1..Len(ext) :
                 p < q => Before(FirstPlace(urls[p]), FirstPlace(urls[q]))
           /\ (\A place \in MetaLinkPlaces :
                  installed(meta_details.meta_catalogs[place[1]].request.base))
              => \A place \in MetaLinkPlaces :
                    \E p \in 1..Len(ext) : urls[p] = LinkAt(place).url
           /\ (/\ [p \in 1..Len(traversed) |-> traversed[p].link.url]
                     = <<"A", "B", "A", "C">>
               /\ \A p \in 1..Len(traversed) : installed(traversed[p].request.base))
              => urls = <<"A", "B", "C">>

\* C7 witness: two Ready sources of the installed addon declaring the
\* meta links A, B and A, C, projected to A, B, C.
C7_Witness ==
    /\ MetaDone
    /\ NumMeta = 2
    /\ \A i \in 1..2 :
          /\ is_ready(MetaContent(i))
          /\ meta_details.meta_catalogs[i].request.base = "addon1"
          /\ Len(MetaContent(i).value.links) = 2
          /\ \A j \in 1..2 : MetaContent(i).value.links[j].category = "meta"
    /\ MetaContent(1).value.links[1].url = "A"
    /\ MetaContent(1).value.links[2].url = "B"
    /\ MetaContent(2).value.links[1].url = "A"
    /\ MetaContent(2).value.links[2].url = "C"
    /\ [p \in 1..Len(out.value.meta_extensions) |-> out.value.meta_extensions[p].url]
          = <<"A", "B", "C">>

\* Whether `base` is the transport_url of an installed addon.
InstalledBase(base) ==
    \E k \in 1..Len(profile_addons) : profile_addons[k].transport_url = base

\* The request base of the source of a place.
PlaceBase(place) == meta_details.meta_catalogs[place[1]].request.base

\* C16: meta_extensions is computed from every Ready source: a
\* meta-category link of any Ready source, the representative or not, whose
\* addon is installed and whose url no earlier place declares, is in the
\* output under its name; every entry is the first place of its url among
\* the meta-category links of the Ready sources, so Loading and Err sources
\* contribute nothing and links of another category never appear.
C16_EveryReadySource ==
    MetaDone
    => LET ext == out.value.meta_extensions
       IN  /\ \A place \in MetaLinkPlaces :
                 (/\ InstalledBase(PlaceBase(place))
                  /\ FirstPlace(LinkAt(place).url) = place)
                 => \E p \in 1..Len(ext) :
                       /\ ext[p].url = LinkAt(place).url
                       /\ ext[p].name = LinkAt(place).name
           /\ \A p \in 1..Len(ext) :
                 \E place \in MetaLinkPlaces :
                    /\ FirstPlace(LinkAt(place).url) = place
                    /\ ext[p].url = LinkAt(place).url
                    /\ ext[p].name = LinkAt(place).name
                    /\ LinkAt(place).category = META_RESOURCE_NAME
                    /\ is_ready(MetaContent(place[1]))

\* C16 witness: a Ready representative declaring the meta link A and a cast
\* link, then a second Ready source of the installed addon declaring the
\* meta link B; the output is A, B.
C16_Witness ==
    /\ MetaDone
    /\ NumMeta = 2
    /\ is_ready(MetaContent(1))
    /\ meta_catalog = Some(1)
    /\ [j \in 1..Len(MetaContent(1).value.links) |->
           MetaContent(1).value.links[j].name] = <<"Ext A", "Cast">>
    /\ is_ready(MetaContent(2))
    /\ meta_details.meta_catalogs[2].request.base = "addon1"
    /\ [j \in 1..Len(MetaContent(2).value.links) |->
           MetaContent(2).value.links[j].name] = <<"Ext B">>
    /\ meta_details.meta_catalogs[1].request.base = "addon1"
    /\ [p \in 1..Len(out.value.meta_extensions) |-> out.value.meta_extensions[p].name]
          = <<"Ext A", "Ext B">>

----------------------------------------------------------------------------
(* SpecResolve: serialize_meta_details over at most MaxSources meta        *)
(* sources from addon1, addon2 or addon3, each Loading, Err or Ready with  *)
(* one of the link lists of ResolveLinkLists, and every installed list of  *)
(* distinct addons among addon1 and addon2.                                *)

ResolveLinkLists ==
    LET a == Link("Ext A", META_RESOURCE_NAME, "A")
        b == Link("Ext B", META_RESOURCE_NAME, "B")
        cast == Link("Cast", "actor", "B")
    IN  {<<>>, <<a>>, <<b>>, <<a, b>>, <<b, a>>, <<cast, a>>}

ResolveEntries ==
    {ResourceLoadable(Request(base, "meta", "tt1", <<>>), content) :
        base \in {"addon1", "addon2", "addon3"},
        content \in {Loading, Err("e1")}
                    \cup {Ready(MetaItem("tt1", "Title", None, FALSE, links, <<>>)) :
                             links \in ResolveLinkLists}}

ResolveProfiles ==
    LET one == Descriptor("addon1", "Addon One")
        two == Descriptor("addon2", "Addon Two")
    IN  {<<>>, <<one>>, <<two>>, <<one, two>>, <<two, one>>}

InitResolve ==
    \E addons \in ResolveProfiles, metas \in SeqsUpTo(ResolveEntries, MaxSources) :
        Snapshot(addons, EmptyLibrary, 0,
                 [selected |-> None, meta_catalogs |-> metas, streams_catalogs |-> <<>>],
                 EmptyDiscover, EmptyRemoteAddons, EmptyCatalogsWithExtra)

NextResolve == SerializeMetaDetails

SpecResolve == InitResolve /\ [][NextResolve]_vars

\* C15: the deduplication runs before the resolution of the addon: a url of
\* the traversal is in meta_extensions exactly when the request of the
\* first place carrying it has the base of an installed addon, so a url
\* whose first place comes from an addon that is not installed is dropped
\* even when a later Ready source of an installed addon declares it; the
\* addon of every entry is the installed addon of that first place.
C15_DedupBeforeResolve ==
    MetaDone
    => LET ext == out.value.meta_extensions
       IN  /\ \A place \in MetaLinkPlaces :
                 (\E p \in 1..Len(ext) : ext[p].url = LinkAt(place).url)
                 <=> InstalledBase(PlaceBase(FirstPlace(LinkAt(place).url)))
           /\ \A p \in 1..Len(ext) :
                 /\ \E place \in MetaLinkPlaces : LinkAt(place).url = ext[p].url
                 /\ ext[p].addon.transport_url = PlaceBase(FirstPlace(ext[p].url))
                 /\ \E k \in 1..Len(profile_addons) :
                       /\ profile_addons[k].transport_url = ext[p].addon.transport_url
                       /\ profile_addons[k].manifest.name = ext[p].addon.manifest.name

\* C15 witness: with addon1 and addon2 installed, a Ready source of addon3
\* declares A, then a Ready source of addon2 declares A and B: A is dropped
\* and B is resolved to addon2.
C15_Witness ==
    /\ MetaDone
    /\ Len(profile_addons) = 2
    /\ NumMeta = 2
    /\ is_ready(MetaContent(1))
    /\ meta_details.meta_catalogs[1].request.base = "addon3"
    /\ [j \in 1..Len(MetaContent(1).value.links) |->
           MetaContent(1).value.links[j].url] = <<"A">>
    /\ is_ready(MetaContent(2))
    /\ meta_details.meta_catalogs[2].request.base = "addon2"
    /\ [j \in 1..Len(MetaContent(2).value.links) |->
           MetaContent(2).value.links[j].url] = <<"A", "B">>
    /\ Len(out.value.meta_extensions) = 1
    /\ out.value.meta_extensions[1].url = "B"
    /\ out.value.meta_extensions[1].addon.transport_url = "addon2"
    /\ out.value.meta_extensions[1].addon.manifest.name = "Addon Two"

----------------------------------------------------------------------------
(* SpecStreams: serialize_meta_details over at most MaxSources meta        *)
(* sources and at most MaxStreamSources stream sources, each from addon1   *)
(* or addon2; a meta source is Loading, Err or Ready with one video, a     *)
(* stream source is Loading, Err or Ready with at most MaxStreams streams. *)

StreamPool == <<Stream("s1"), Stream("s2"), Stream("s3"), Stream("s4")>>

StreamsMetaEntries ==
    {ResourceLoadable(Request(base, "meta", "tt1", <<>>), content) :
        base \in {"addon1", "addon2"},
        content \in {Loading, Err("e1"),
                     Ready(MetaItem("tt1", "Title", None, FALSE, <<>>,
                                    <<Video("tt1:1:1")>>))}}

StreamsStreamEntries ==
    {ResourceLoadable(Request(base, "stream", "tt1:1:1", <<>>), content) :
        base \in {"addon1", "addon2"},
        content \in {Loading, Err("e2")}
                    \cup {Ready(SubSeq(StreamPool, 1, n)) : n \in 0..MaxStreams}}

InitStreams ==
    \E metas \in SeqsUpTo(StreamsMetaEntries, MaxSources),
       streams \in SeqsUpTo(StreamsStreamEntries, MaxStreamSources) :
        Snapshot(<<Descriptor("addon1", "Addon One")>>, EmptyLibrary, 0,
                 [selected |-> None, meta_catalogs |-> metas,
                  streams_catalogs |-> streams],
                 EmptyDiscover, EmptyRemoteAddons, EmptyCatalogsWithExtra)

NextStreams == SerializeMetaDetails

SpecStreams == InitStreams /\ [][NextStreams]_vars

StreamSource(i) == meta_details.streams_catalogs[i]
NumStreamSources == Len(meta_details.streams_catalogs)

\* C12: the output streams_catalogs has the length and order of the input;
\* entry i has the variant of input entry i, a Ready entry holds one
\* projected stream per input stream in the same order and an Err entry the
\* input's payload, whatever the states of the meta sources.
C12_StreamsPreserved ==
    MetaDone
    => /\ Len(out.value.streams_catalogs) = NumStreamSources
       /\ \A i \in 1..NumStreamSources :
             LET content == StreamSource(i).content
                 view == out.value.streams_catalogs[i].content
             IN  /\ view.tag = content.tag
                 /\ is_ready(content) =>
                       /\ Len(view.value) = Len(content.value)
                       /\ \A j \in 1..Len(content.value) :
                             view.value[j].stream = content.value[j]
                 /\ is_err(content) => view.error = content.error

\* C12 witness: an Err stream source before a Ready one with two streams,
\* both projected in place, while the meta sources are an Err one before a
\* Ready one.
C12_Witness ==
    /\ MetaDone
    /\ NumMeta = 2
    /\ is_err(MetaContent(1))
    /\ is_ready(MetaContent(2))
    /\ NumStreamSources = 2
    /\ is_err(StreamSource(1).content)
    /\ is_ready(StreamSource(2).content)
    /\ Len(StreamSource(2).content.value) = 2
    /\ Len(out.value.streams_catalogs) = 2
    /\ out.value.streams_catalogs[1].content = Err(StreamSource(1).content.error)
    /\ Len(out.value.streams_catalogs[2].content.value) = 2

\* C17: with a representative, whatever its state, the target of every
\* projected stream is generated from the stream, its source's request and
\* the representative's request; without one (no meta source) it is
\* generated from the stream alone; the target of every video of a Ready
\* representative is generated from the video and the representative's
\* request.
C17_StreamTargets ==
    MetaDone
    => /\ IsSome(meta_catalog) <=> NumMeta > 0
       /\ \A i \in 1..NumStreamSources :
             is_ready(StreamSource(i).content) =>
                \A j \in 1..Len(StreamSource(i).content.value) :
                   LET stream == StreamSource(i).content.value[j]
                       links == out.value.streams_catalogs[i].content.value[j].deep_links
                   IN  IF NumMeta = 0
                       THEN links = <<"StreamDeepLinks", stream>>
                       ELSE links = <<"StreamDeepLinks", stream, StreamSource(i).request,
                                      meta_details.meta_catalogs[Unwrap(meta_catalog)]
                                         .request>>
       /\ (IsSome(meta_catalog) /\ is_ready(MetaContent(Unwrap(meta_catalog)))) =>
             LET source == meta_details.meta_catalogs[Unwrap(meta_catalog)]
                 views == Unwrap(out.value.meta_catalog).content.value.videos
             IN  /\ Len(views) = Len(source.content.value.videos)
                 /\ \A k \in 1..Len(views) :
                       views[k].deep_links
                          = <<"VideoDeepLinks", source.content.value.videos[k],
                              source.request>>

\* C17 witness: an Err representative of addon2 and a Ready stream source
\* of addon1, whose stream's target carries both requests.
C17_Witness ==
    /\ MetaDone
    /\ NumMeta >= 1
    /\ \A i \in 1..NumMeta : is_err(MetaContent(i))
    /\ meta_details.meta_catalogs[1].request.base = "addon2"
    /\ NumStreamSources >= 1
    /\ is_ready(StreamSource(1).content)
    /\ StreamSource(1).request.base = "addon1"
    /\ Len(StreamSource(1).content.value) >= 1
    /\ out.value.streams_catalogs[1].content.value[1].deep_links
          = <<"StreamDeepLinks", StreamSource(1).content.value[1],
              StreamSource(1).request, meta_details.meta_catalogs[1].request>>

----------------------------------------------------------------------------
(* SpecStreamingServer: serialize_streaming_server over every state of the *)
(* settings, base_url and playback_devices, a torrent that is absent or    *)
(* one of two info hashes with a Loading, Err (two payloads) or Ready (two *)
(* resource paths) state, and statistics absent or in any state.           *)

ResourcePath(id) == [resource |-> "meta", type |-> "movie", id |-> id, extra |-> <<>>]

TorrentStates ==
    {Loading, Err("e1"), Err("e2"), Ready(ResourcePath("tt1")), Ready(ResourcePath("tt2"))}

Torrents ==
    {None} \cup {Some(<<info_hash, loadable>>) :
                    info_hash \in {"hash1", "hash2"}, loadable \in TorrentStates}

InitStreamingServer ==
    \E settings \in {Loading, Err("e1"), Ready("settings")},
       base_url \in {Loading, Err("e1"), Ready("http://127.0.0.1:11470/")},
       playback_devices \in {Loading, Err("e1"), Ready(<<"chromecast">>)},
       torrent \in Torrents,
       statistics \in {None, Some(Loading), Some(Err("e1")), Some(Ready("statistics"))} :
        /\ profile_addons = <<>>
        /\ library_items = EmptyLibrary
        /\ now = 0
        /\ meta_details = EmptyMetaDetails
        /\ discover = EmptyDiscover
        /\ remote_addons = EmptyRemoteAddons
        /\ catalogs_with_extra = EmptyCatalogsWithExtra
        /\ streaming_server =
              [selected |-> [transport_url |-> "server"], settings |-> settings,
               base_url |-> base_url, playback_devices |-> playback_devices,
               torrent |-> torrent, statistics |-> statistics]
        /\ notifications = EmptyNotifications
        /\ meta_catalog = None
        /\ out = NoOutput

NextStreamingServer == SerializeStreamingServer

SpecStreamingServer == InitStreamingServer /\ [][NextStreamingServer]_vars

ServerDone == out.surface = "streaming_server"

\* C13: the output torrent is absent exactly when the input torrent is
\* absent; when present it keeps the info hash and the variant: Ready(path)
\* becomes Ready of the path with the target generated from that path,
\* Loading stays Loading, Err(e) stays Err(e) with no target.
C13_Torrent ==
    ServerDone
    => /\ IsNone(out.value.torrent) <=> IsNone(streaming_server.torrent)
       /\ IsSome(streaming_server.torrent) =>
             LET info_hash == Unwrap(streaming_server.torrent)[1]
                 loadable == Unwrap(streaming_server.torrent)[2]
                 view == Unwrap(out.value.torrent)
             IN  /\ view[1] = info_hash
                 /\ view[2].tag = loadable.tag
                 /\ is_ready(loadable) =>
                       view[2].value
                          = <<loadable.value, <<"MetaItemDeepLinks", loadable.value>>>>
                 /\ is_loading(loadable) => view[2] = [tag |-> "Loading"]
                 /\ is_err(loadable) =>
                       view[2] = [tag |-> "Err", error |-> loadable.error]

\* C13 witness: a torrent in the Err state "e2" projected as Err "e2" under
\* the same info hash.
C13_Witness ==
    /\ ServerDone
    /\ streaming_server.torrent = Some(<<"hash2", Err("e2")>>)
    /\ out.value.torrent = Some(<<"hash2", Err("e2")>>)

----------------------------------------------------------------------------
(* SpecCtx: serialize_ctx over every notification index on a subset of the *)
(* meta item ids tt1, tt2, each key holding at most MaxNotifications       *)
(* records under distinct video ids in any iteration order, with every     *)
(* last_updated (or none) and created instant up to MaxTime.               *)

NotificationMetaIds == {"tt1", "tt2"}
NotificationVideoIds == {"v1", "v2", "v3"}

NotificationItem(meta_id, video_id) ==
    [meta_id |-> meta_id, video_id |-> video_id, video_released |-> 0]

\* The inner maps of one key: entries with distinct video ids.
InnerMaps(meta_id) ==
    {[i \in 1..Len(ids) |->
         [key |-> ids[i], value |-> NotificationItem(meta_id, ids[i])]] :
        ids \in {q \in SeqsUpTo(NotificationVideoIds, MaxNotifications) :
                    \A i, j \in 1..Len(q) : q[i] = q[j] => i = j}}

NotificationIndexes ==
    UNION {{f \in [keys -> UNION {InnerMaps(k) : k \in keys}] :
               \A k \in keys : f[k] \in InnerMaps(k)} :
           keys \in SUBSET NotificationMetaIds}

InitCtx ==
    \E items \in NotificationIndexes,
       last_updated \in {None} \cup {Some(t) : t \in 0..MaxTime},
       created \in 0..MaxTime :
        /\ profile_addons = <<Descriptor("addon1", "Addon One")>>
        /\ library_items = EmptyLibrary
        /\ now = 0
        /\ meta_details = EmptyMetaDetails
        /\ discover = EmptyDiscover
        /\ remote_addons = EmptyRemoteAddons
        /\ catalogs_with_extra = EmptyCatalogsWithExtra
        /\ streaming_server = EmptyStreamingServer
        /\ notifications =
              [items |-> items, last_updated |-> last_updated, created |-> created]
        /\ meta_catalog = None
        /\ out = NoOutput

NextCtx == SerializeCtx

SpecCtx == InitCtx /\ [][NextCtx]_vars

CtxDone == out.surface = "ctx"

\* How many positions of the list hold the record.
Occurrences(list, record) == Cardinality({i \in 1..Len(list) : list[i] = record})

\* How many entries of the inner map have the record as their value.
ValueCount(inner, record) ==
    Cardinality({i \in 1..Len(inner) : inner[i].value = record})

\* C14: the output notifications.items has the key set of the input index;
\* under every key the output list holds exactly the values of the input's
\* inner map under that key, as many as its entries, none added, dropped or
\* moved to another key; last_updated and created equal the input's.
C14_Notifications ==
    CtxDone
    => LET items == out.value.notifications.items
       IN  /\ DOMAIN items = DOMAIN notifications.items
           /\ \A meta_id \in DOMAIN notifications.items :
                 LET inner == notifications.items[meta_id]
                 IN  /\ Len(items[meta_id]) = Len(inner)
                     /\ \A i \in 1..Len(inner) :
                           Occurrences(items[meta_id], inner[i].value) = 1
                     /\ \A i \in 1..Len(items[meta_id]) :
                           ValueCount(inner, items[meta_id][i]) = 1
           /\ out.value.notifications.last_updated = notifications.last_updated
           /\ out.value.notifications.created = notifications.created

\* C14 witness: tt1 with two records and tt2 with none, both keys in the
\* output with two records and none, and the timestamps carried through.
C14_Witness ==
    /\ CtxDone
    /\ DOMAIN notifications.items = {"tt1", "tt2"}
    /\ Len(notifications.items["tt1"]) = 2
    /\ Len(notifications.items["tt2"]) = 0
    /\ notifications.last_updated = Some(1)
    /\ notifications.created = 2
    /\ DOMAIN out.value.notifications.items = {"tt1", "tt2"}
    /\ Len(out.value.notifications.items["tt1"]) = 2
    /\ out.value.notifications.items["tt2"] = <<>>
    /\ out.value.notifications.last_updated = Some(1)
    /\ out.value.notifications.created = 2

====
